---- MODULE Spec2Model ----
(***************************************************************************)
(* A model of the read-only SQLite query engine of src/src/main.rs: the    *)
(* varint codec, the record decoder and typed extractors, the cell         *)
(* readers, the table and index B-tree walkers and the query executor.     *)
(*                                                                         *)
(* Bytes are naturals 0..255.  A u64 is a sequence of 64 bits, most        *)
(* significant first, so that shifts keep their width.  An i64 is its      *)
(* 8-byte big-endian two's-complement image.  A file position is modelled  *)
(* by the "view" of the file from that position: the sequence of the bytes *)
(* from there to the end of the file; read_exact(n) fails on a view        *)
(* shorter than n.  A Rust Result is a record with kind "ok", "err" (an    *)
(* Err value from bail!/?), or "panic" (an abort: slice index out of       *)
(* range, copy_from_slice length mismatch).                                *)
(***************************************************************************)
EXTENDS Integers, Sequences, FiniteSets, TLC

VARIABLES
    data,     \* the byte slice handed to the function under test
    given,    \* what data was written from: the value encoded, the serial type stored
    ret,      \* what the last call returned
    pages,    \* the database file: page number -> page
    query,    \* the arguments execute_sql_query_command derived from the SQL text
    pc,       \* position of execute_sql_query_command
    rows,     \* rows collected by the traversal, not yet printed
    out       \* lines written to stdout so far

vars == <<data, given, ret, pages, query, pc, rows, out>>

None == [fn |-> "none"]

(***************************************************************************)
(* Machine integers.  A u64 is four 16-bit limbs, most significant first.  *)
(***************************************************************************)
Limb == 2 ^ 16

Zero64 == <<0, 0, 0, 0>>

\* (val << 7) | ((current_byte & 0x7F) as u64); the bits shifted out are lost
Shl7Or(val, current_byte) ==
    LET x4 == val[4] * 128 + (current_byte % 128)
        x3 == val[3] * 128 + (x4 \div Limb)
        x2 == val[2] * 128 + (x3 \div Limb)
        x1 == val[1] * 128 + (x2 \div Limb)
    IN  <<x1 % Limb, x2 % Limb, x3 % Limb, x4 % Limb>>

\* (val << 8) | (current_byte as u64); the bits shifted out are lost
Shl8Or(val, current_byte) ==
    LET x4 == val[4] * 256 + current_byte
        x3 == val[3] * 256 + (x4 \div Limb)
        x2 == val[2] * 256 + (x3 \div Limb)
        x1 == val[1] * 256 + (x2 \div Limb)
    IN  <<x1 % Limb, x2 % Limb, x3 % Limb, x4 % Limb>>

\* a natural below 2^30 as a u64
U64(n) == <<0, 0, n \div Limb, n % Limb>>

\* the values at or above 2^30 are larger than every buffer of the model
Huge == 2 ^ 30

\* `x as usize` for a u64 used as a length or an offset
AsUsize(v) == IF v[1] # 0 \/ v[2] # 0 \/ v[3] >= 2 ^ 14 THEN Huge
              ELSE v[3] * Limb + v[4]

\* a <= b on u64
U64Leq(a, b) ==
    \/ a = b
    \/ \E i \in 1..4 : /\ a[i] < b[i]
                       /\ \A j \in 1..(i - 1) : a[j] = b[j]

(***************************************************************************)
(* read_varint                                                             *)
(***************************************************************************)
RECURSIVE varint_loop(_, _, _)
varint_loop(d, i, val) ==
    IF i < 8 /\ i < Len(d)
    THEN LET current_byte == d[i + 1]
             v2 == Shl7Or(val, current_byte)
         IN  IF current_byte < 128
             THEN [val |-> v2, len |-> i + 1]
             ELSE varint_loop(d, i + 1, v2)
    ELSE IF i < Len(d)
         THEN [val |-> Shl8Or(val, d[i + 1]), len |-> i + 1]
         ELSE [val |-> val, len |-> i]

\* mutant: the ninth byte is treated like the first eight (7 bits)
read_varint_7bit(d) ==
    LET n == IF Len(d) < 8 THEN Len(d) ELSE 8
        r == varint_loop(SubSeq(d, 1, n), 0, Zero64)
    IN  IF r.len = 8 /\ Len(d) > 8 /\ d[8] >= 128
        THEN [val |-> Shl7Or(r.val, d[9]), len |-> 9]
        ELSE r

read_varint(d) == varint_loop(d, 0, Zero64)

(***************************************************************************)
(* The varint codec on its own: data is the SQLite encoding of a u64,      *)
(* followed by further bytes of the file.                                  *)
(***************************************************************************)
MaxTrail == 1

TrailBytes == {0, 129, 255}

RECURSIVE SeqsUpTo(_, _)
\* the sequences over S of length at most n
SeqsUpTo(S, n) ==
    IF n = 0 THEN {<<>>}
    ELSE LET shorter == SeqsUpTo(S, n - 1)
         IN  shorter \cup {Append(t, x) : t \in shorter, x \in S}

RECURSIVE BitsVal(_)
\* the natural a short bit sequence denotes
BitsVal(b) == IF Len(b) = 0 THEN 0
              ELSE 2 * BitsVal(SubSeq(b, 1, Len(b) - 1)) + b[Len(b)]

\* the u64 of bit length L whose bits below the top one follow a pattern
VarintValue(L, pat) ==
    LET bits == [i \in 1..64 |->
                    IF i < 64 - L + 1 THEN 0
                    ELSE IF i = 64 - L + 1 THEN 1
                    ELSE IF pat = "ones" THEN 1
                    ELSE IF pat = "zeros" THEN 0
                    ELSE i % 2]
    IN  [k \in 1..4 |-> BitsVal(SubSeq(bits, 16 * (k - 1) + 1, 16 * k))]

VarintValues ==
    {VarintValue(L, pat) : L \in 0..64, pat \in {"ones", "zeros", "alt"}}

\* v >> 7 and v >> 8
Shr7(v) == <<v[1] \div 128,
             (v[1] % 128) * 512 + (v[2] \div 128),
             (v[2] % 128) * 512 + (v[3] \div 128),
             (v[3] % 128) * 512 + (v[4] \div 128)>>
Shr8(v) == <<v[1] \div 256,
             (v[1] % 256) * 256 + (v[2] \div 256),
             (v[2] % 256) * 256 + (v[3] \div 256),
             (v[3] % 256) * 256 + (v[4] \div 256)>>

RECURSIVE Continued(_, _)
\* the n low 7-bit groups of v (all of them when n = 0), high bit set
Continued(v, n) ==
    IF n = 1 \/ (n = 0 /\ Shr7(v) = Zero64) THEN <<128 + (v[4] % 128)>>
    ELSE Append(Continued(Shr7(v), IF n = 0 THEN 0 ELSE n - 1), 128 + (v[4] % 128))

\* SQLite's encoder: 1 to 9 bytes, the shortest that holds v
EncodeVarint(v) ==
    IF v[1] >= 256
    THEN Append(Continued(Shr8(v), 8), v[4] % 256)
    ELSE IF Shr7(v) = Zero64 THEN <<v[4] % 128>>
    ELSE Append(Continued(Shr7(v), 0), v[4] % 128)

Idle == /\ pages = <<>>
        /\ query = None
        /\ pc = "idle"
        /\ rows = <<>>
        /\ out = <<>>

InitVarint ==
    /\ given \in {[value |-> v] : v \in VarintValues}
    /\ data \in {EncodeVarint(given.value) \o t : t \in SeqsUpTo(TrailBytes, MaxTrail)}
    /\ ret = None
    /\ Idle

ReadVarint ==
    /\ ret = None
    /\ ret' = [fn |-> "read_varint", val |-> read_varint(data).val,
                                     len |-> read_varint(data).len]
    /\ UNCHANGED <<data, given, pages, query, pc, rows, out>>

\* a caller hands read_varint the bytes after the varint it has just read
ReadNext ==
    /\ ret # None
    /\ ret.fn = "read_varint"
    /\ ret.len < Len(data)
    /\ data' = SubSeq(data, ret.len + 1, Len(data))
    /\ given' = [rest |-> TRUE]
    /\ ret' = None
    /\ UNCHANGED <<pages, query, pc, rows, out>>

NextVarint == ReadVarint \/ ReadNext

SpecVarint == InitVarint /\ [][NextVarint]_vars

VarintRoundTrip ==
    (ret # None /\ "value" \in DOMAIN given) =>
        /\ ret.val = given.value
        /\ ret.len = Len(EncodeVarint(given.value))

VarintStops ==
    (ret # None /\ "value" \in DOMAIN given) =>
        /\ ret.len <= 9
        /\ \A i \in 1..(ret.len - 1) : data[i] >= 128
        /\ ret.len < 9 => data[ret.len] < 128

\* C8: read_varint applied to the encoding B of a u64 v, also when B is
\* followed by further bytes, returns (v, len(B)); it stops at the first byte
\* whose high bit is 0 or after the ninth byte, whose 8 bits all count.
C8_VarintRoundTrip == VarintRoundTrip /\ VarintStops

\* a nine-byte encoding followed by further bytes has been decoded
C8_Witness ==
    /\ ret # None
    /\ "value" \in DOMAIN given
    /\ ret.len = 9
    /\ Len(data) > 9
    /\ data[9] >= 128

(***************************************************************************)
(* Serial types and the typed extractors.                                  *)
(***************************************************************************)
get_serial_type_size(serial_type) ==
    CASE serial_type \in {0, 8, 9} -> 0
      [] serial_type = 1 -> 1
      [] serial_type = 2 -> 2
      [] serial_type = 3 -> 3
      [] serial_type = 4 -> 4
      [] serial_type = 5 -> 6
      [] serial_type \in {6, 7} -> 8
      [] serial_type >= 12 /\ serial_type % 2 = 0 -> (serial_type - 12) \div 2
      [] serial_type >= 13 /\ serial_type % 2 = 1 -> (serial_type - 13) \div 2
      [] OTHER -> 0

Ok(v) == [kind |-> "ok", val |-> v]
Err(why) == [kind |-> "err", why |-> why]
Panic(why) == [kind |-> "panic", why |-> why]

\* a small integer as an i64
I64(n) == [i \in 1..8 |-> IF i = 8 THEN n ELSE 0]

\* iN::from_be_bytes(bytes) as i64: the sign byte fills the upper bytes
SignExtend(bytes) ==
    [i \in 1..(8 - Len(bytes)) |-> IF bytes[1] >= 128 THEN 255 ELSE 0] \o bytes

extract_integer(buffer) ==
    CASE Len(buffer) = 0 -> Ok(I64(0))
      [] Len(buffer) = 1 -> Ok(SignExtend(buffer))
      [] Len(buffer) = 2 -> Ok(SignExtend(SubSeq(buffer, 1, 2)))
      [] Len(buffer) = 3 -> Ok(SignExtend(<<buffer[1], buffer[2], buffer[3]>>))
      [] Len(buffer) = 4 -> Ok(SignExtend(SubSeq(buffer, 1, 4)))
         \* bytes[2..8].copy_from_slice(&buffer): six bytes from a slice of five
      [] Len(buffer) = 5 -> Panic("copy_from_slice: source slice length does not match")
         \* buffer[0..8] of a slice of six
      [] Len(buffer) = 6 -> Panic("range end index 8 out of range for slice of length 6")
      [] Len(buffer) = 8 -> Ok(I64(0))
      [] Len(buffer) = 9 -> Ok(I64(1))
      [] OTHER -> Err("Invalid buffer length for integer type")

\* the f64 is kept as its bit image
extract_real(buffer) ==
    IF Len(buffer) = 8 THEN Ok(<<"f64", SubSeq(buffer, 1, 8)>>)
    ELSE Err("Invalid buffer length for floating type")

\* U+FFFD, what from_utf8_lossy puts for a byte that is no UTF-8
Replacement == 65533

\* String::from_utf8_lossy, as code points; the buffers of the model hold
\* ASCII and bytes that start no valid UTF-8 sequence
extract_string(buffer) ==
    [i \in 1..Len(buffer) |-> IF buffer[i] < 128 THEN buffer[i] ELSE Replacement]

(***************************************************************************)
(* The extractors on their own: data is the body of one column, given      *)
(* holds the serial type it was stored under.                              *)
(***************************************************************************)
MaxBody == 9

ExtractBytes == {0, 1, 97, 128, 255}

\* the bodies of n bytes tried: a first byte, and one byte for the rest
Bodies(n) == {[i \in 1..n |-> IF i = 1 THEN a ELSE b] : a, b \in ExtractBytes}

SerialTypes == (0..9) \cup (12..(13 + 2 * MaxBody))

InitExtract ==
    /\ given \in {[serial_type |-> st] : st \in SerialTypes}
    /\ data \in Bodies(get_serial_type_size(given.serial_type))
    /\ ret = None
    /\ Idle

ExtractInteger ==
    /\ ret = None
    /\ ret' = [fn |-> "extract_integer", res |-> extract_integer(data)]
    /\ UNCHANGED <<data, given, pages, query, pc, rows, out>>

ExtractReal ==
    /\ ret = None
    /\ ret' = [fn |-> "extract_real", res |-> extract_real(data)]
    /\ UNCHANGED <<data, given, pages, query, pc, rows, out>>

ExtractString ==
    /\ ret = None
    /\ ret' = [fn |-> "extract_string", res |-> Ok(extract_string(data))]
    /\ UNCHANGED <<data, given, pages, query, pc, rows, out>>

NextExtract == ExtractInteger \/ ExtractReal \/ ExtractString

SpecExtract == InitExtract /\ [][NextExtract]_vars

IntegerSerialTypes == {1, 2, 3, 4, 5, 6, 8, 9}

\* the i64 the file format prescribes for an integer serial type
Prescribed(st, body) ==
    CASE st = 8 -> I64(0)
      [] st = 9 -> I64(1)
      [] OTHER -> SignExtend(body)

\* C6: for every integer serial type (1..6, 8, 9) extract_integer returns the
\* value the serial type prescribes, and never fails or aborts.
C6_IntegerPrescribed ==
    (ret.fn = "extract_integer" /\ given.serial_type \in IntegerSerialTypes) =>
        ret.res = Ok(Prescribed(given.serial_type, data))

\* C10: an extractor applied to a column stored under a serial type outside
\* its domain fails: text unless odd >= 13, real unless 7, integer for text
\* and blob serial types.
C10_TypeMismatch ==
    LET st == given.serial_type
    IN  /\ (ret.fn = "extract_string" /\ ~(st >= 13 /\ st % 2 = 1)) => ret.res.kind = "err"
        /\ (ret.fn = "extract_real" /\ st # 7) => ret.res.kind = "err"
        /\ (ret.fn = "extract_integer" /\ st >= 12) => ret.res.kind = "err"

(***************************************************************************)
(* get_cell_data.  view is the file from the cell's first byte on.         *)
(***************************************************************************)
RECURSIVE record_loop(_, _, _, _, _)
\* the while loop over the header: one column per serial-type varint
record_loop(record_buffer, header_size, header_pos, body_offset, cols) ==
    IF header_pos < header_size
    THEN IF header_pos > Len(record_buffer)
         THEN Panic("range start index out of range")
         ELSE LET column(v, serial_type_size) ==
                      IF body_offset + serial_type_size > Len(record_buffer)
                      THEN Panic("range end index out of range")
                      ELSE record_loop(record_buffer, header_size, header_pos + v.len,
                                       body_offset + serial_type_size,
                                       Append(cols, SubSeq(record_buffer, body_offset + 1,
                                                           body_offset + serial_type_size)))
                  serial_type(v) == column(v, get_serial_type_size(AsUsize(v.val)))
              IN  serial_type(read_varint(SubSeq(record_buffer, header_pos + 1,
                                                 Len(record_buffer))))
    ELSE Ok(cols)

\* the record of a payload: the header size, then the loop
record_of(record_buffer) ==
    LET header(hs) == record_loop(record_buffer, AsUsize(hs.val), hs.len, AsUsize(hs.val), <<>>)
    IN  header(read_varint(record_buffer))

get_cell_data(view, index_cell) ==
    LET record(rec, rowid) ==
            IF rec.kind = "ok" THEN Ok([data |-> rec.val, rowid |-> rowid]) ELSE rec
        payload(payload_size, total_header_bytes, rowid) ==
            IF Len(view) < total_header_bytes + payload_size
            THEN Err("Failed to read record")
            ELSE record(record_of(SubSeq(view, total_header_bytes + 1,
                                         total_header_bytes + payload_size)), rowid)
        rowid_varint(payload_size, payload_size_bytes, rv) ==
            payload(payload_size, payload_size_bytes + rv.len, rv.val)
        payload_varint(ps) ==
            IF index_cell THEN rowid_varint(AsUsize(ps.val), ps.len, [val |-> Zero64, len |-> 0])
            ELSE IF Len(view) < ps.len + 9
            THEN Err("read_exact: failed to fill whole buffer")
            ELSE rowid_varint(AsUsize(ps.val), ps.len,
                              read_varint(SubSeq(view, ps.len + 1, ps.len + 9)))
    IN  IF Len(view) < 9 THEN Err("read_exact: failed to fill whole buffer")
        ELSE payload_varint(read_varint(SubSeq(view, 1, 9)))

(***************************************************************************)
(* Strings are sequences of code points.                                   *)
(***************************************************************************)
RECURSIVE Digits(_)
Digits(n) == IF n < 10 THEN <<48 + n>> ELSE Append(Digits(n \div 10), 48 + (n % 10))

\* u64::to_string; a value past the model's range stays a token of its bits
U64ToString(v) == IF AsUsize(v) < Huge THEN Digits(AsUsize(v)) ELSE <<<<"u64", v>>>>

\* i64::to_string; a value past 24 bits stays a token of its bytes
I64ToString(b) ==
    IF \A i \in 1..5 : b[i] = 0
    THEN Digits((b[6] * 256 + b[7]) * 256 + b[8])
    ELSE IF \A i \in 1..5 : b[i] = 255
    THEN <<45>> \o Digits(((255 - b[6]) * 256 + (255 - b[7])) * 256 + (255 - b[8]) + 1)
    ELSE <<<<"i64", b>>>>

\* f64::to_string, a token of the bit image
F64ToString(x) == <<x>>

ToAsciiLower(c) == IF c \in 65..90 THEN c + 32 ELSE c

\* mutant: the comparison of the bytes as they are
eq_case_sensitive(a, b) == a = b

eq_ignore_ascii_case(a, b) ==
    /\ Len(a) = Len(b)
    /\ \A i \in 1..Len(a) : ToAsciiLower(a[i]) = ToAsciiLower(b[i])

(***************************************************************************)
(* Pages.  A page is [ptype, cells, right]: the page-type byte, the cells  *)
(* in cell-pointer-array order (each the view of the file from the cell's  *)
(* offset), and bytes 8..12 of an interior page's header.  n_cells is      *)
(* Len(cells).  A page number outside the file makes read_exact fail.      *)
(***************************************************************************)
InteriorIndex == 2
InteriorTable == 5
LeafIndex == 10
LeafTable == 13

HasPage(pgs, n) == n \in DOMAIN pgs

\* PageType::from_u8
IsPageType(b) == b \in {InteriorIndex, InteriorTable, LeafIndex, LeafTable}

\* u32::from_be_bytes
U32(b) == ((b[1] * 256 + b[2]) * 256 + b[3]) * 256 + b[4]

extract_interior_cell_data(view, index_cell) ==
    IF Len(view) < 4 THEN Err("Failed to read left page pointer")
    ELSE IF ~index_cell
    THEN IF Len(view) < 13 THEN Err("read_exact: failed to fill whole buffer")
         ELSE Ok([left |-> U32(SubSeq(view, 1, 4)),
                  key |-> read_varint(SubSeq(view, 5, 13)).val])
    ELSE Ok([left |-> U32(SubSeq(view, 1, 4)), key |-> Zero64])

(***************************************************************************)
(* Projection of one record (the `let value = ...` of both row loops).     *)
(***************************************************************************)
column_value(record, rowid, col_idx, col_type) ==
    IF col_idx = 0 /\ Len(record) = 0 THEN Panic("index out of bounds")
    ELSE IF col_idx = 0 /\ Len(record[1]) = 0 THEN Ok(U64ToString(rowid))
    ELSE IF col_idx >= Len(record) THEN Panic("index out of bounds")
    ELSE LET buffer == record[col_idx + 1]
             integer(r) == IF r.kind = "ok" THEN Ok(I64ToString(r.val)) ELSE r
             real(r) == IF r.kind = "ok" THEN Ok(F64ToString(r.val)) ELSE r
         IN  CASE col_type = "Integer" -> integer(extract_integer(buffer))
               [] col_type = "Text" -> Ok(extract_string(buffer))
               [] col_type = "Real" -> real(extract_real(buffer))
               [] OTHER -> Err("Unsupported data type")

RECURSIVE project(_, _, _, _, _, _)
\* the loop over col_idxs: the values of one row, or the first failure
project(record, rowid, col_idxs, col_types, coli, acc) ==
    IF coli > Len(col_idxs) THEN Ok(acc)
    ELSE LET value(v) ==
                 IF v.kind = "ok"
                 THEN project(record, rowid, col_idxs, col_types, coli + 1, Append(acc, v.val))
                 ELSE v
         IN  value(column_value(record, rowid, col_idxs[coli], col_types[coli]))

\* results[coli].push(value) for every column of a row
PushRow(results, row) == [c \in 1..Len(results) |-> Append(results[c], row[c])]

\* columns[col_idx].extend(col_data)
Extend(columns, page_data) == [c \in 1..Len(page_data) |-> columns[c] \o page_data[c]]
                              \o SubSeq(columns, Len(page_data) + 1, Len(columns))

(***************************************************************************)
(* Full scan of a table B-tree.  q carries col_idxs, col_types, filter_col *)
(* and filter_val (None when absent).                                      *)
(***************************************************************************)
Nothing == [some |-> FALSE]
Some(x) == [some |-> TRUE, v |-> x]

RECURSIVE page_rows(_, _, _, _)
\* the for loop of get_page_data_with_filter over the cell-pointer array
page_rows(cells, i, q, results) ==
    LET filtered == q.filter_col.some /\ q.filter_val.some
        push(row) == IF row.kind = "ok"
                     THEN page_rows(cells, i + 1, q, PushRow(results, row.val))
                     ELSE row
        cell(c) ==
            IF c.kind # "ok" THEN c
            ELSE IF filtered /\ q.filter_col.v >= Len(c.val.data)
            THEN Panic("index out of bounds")
            ELSE IF filtered /\ ~eq_ignore_ascii_case(
                                    extract_string(c.val.data[q.filter_col.v + 1]),
                                    q.filter_val.v)
            THEN page_rows(cells, i + 1, q, results)
            ELSE push(project(c.val.data, c.val.rowid, q.col_idxs, q.col_types, 1, <<>>))
    IN  IF i > Len(cells) THEN Ok(results)
        ELSE cell(get_cell_data(cells[i], FALSE))

get_page_data_with_filter(pgs, page_num, q) ==
    IF ~HasPage(pgs, page_num) THEN Err("Failed to read page header")
    ELSE page_rows(pgs[page_num].cells, 1, q, [c \in 1..Len(q.col_idxs) |-> <<>>])

\* a failure of the scan, with what the out-parameter columns holds by then
Failed(r, columns) == [kind |-> r.kind, why |-> r.why, columns |-> columns]

RECURSIVE get_cols_data_with_filter(_, _, _, _)
RECURSIVE scan_children(_, _, _, _, _)

\* the while loop over the interior cells, then the right-most child
scan_children(pgs, current_page, i, q, columns) ==
    LET child(sub) == IF sub.kind # "ok" THEN sub
                      ELSE scan_children(pgs, current_page, i + 1, q, sub.val)
        interior(cell) ==
            IF cell.kind # "ok" THEN Failed(cell, columns)
            ELSE child(get_cols_data_with_filter(pgs, cell.val.left, q, columns))
    IN  IF i > Len(pgs[current_page].cells)
        THEN get_cols_data_with_filter(pgs, pgs[current_page].right, q, columns)
        ELSE interior(extract_interior_cell_data(pgs[current_page].cells[i], FALSE))

\* mutant: the right-most child is visited first
get_cols_data_right_first(pgs, current_page, q, columns) ==
    IF ~HasPage(pgs, current_page) THEN Err("Failed to read page type")
    ELSE IF pgs[current_page].ptype = InteriorTable
    THEN LET r == get_cols_data_with_filter(pgs, pgs[current_page].right, q, columns)
             l == get_cols_data_with_filter(pgs,
                      extract_interior_cell_data(pgs[current_page].cells[1], FALSE).val.left,
                      q, r.val)
         IN  IF r.kind = "ok" THEN l ELSE r
    ELSE LET page_data == get_page_data_with_filter(pgs, current_page, q)
         IN  IF page_data.kind = "ok" THEN Ok(Extend(columns, page_data.val))
             ELSE page_data

get_cols_data_with_filter(pgs, current_page, q, columns) ==
    LET leaf(page_data) == IF page_data.kind = "ok" THEN Ok(Extend(columns, page_data.val))
                           ELSE Failed(page_data, columns)
    IN  IF ~HasPage(pgs, current_page) THEN Failed(Err("Failed to read page type"), columns)
        ELSE IF ~IsPageType(pgs[current_page].ptype)
        THEN Failed(Err("Received wrong value for page type"), columns)
        ELSE IF pgs[current_page].ptype = InteriorTable
        THEN scan_children(pgs, current_page, 1, q, columns)
        ELSE IF pgs[current_page].ptype = LeafTable
        THEN leaf(get_page_data_with_filter(pgs, current_page, q))
        ELSE Failed(Err("Unhandled page type!"), columns)

(***************************************************************************)
(* SELECT COUNT: count_rows_in_page.                                       *)
(***************************************************************************)
get_rows_from_leaf_page(pgs, current_page) ==
    IF ~HasPage(pgs, current_page) THEN Err("read_exact: failed to fill whole buffer")
    ELSE Ok(Len(pgs[current_page].cells))

RECURSIVE count_rows_in_page(_, _)
RECURSIVE count_children(_, _, _, _)

count_children(pgs, current_page, i, total_count) ==
    LET last(r) == IF r.kind = "ok" THEN Ok(total_count + r.val) ELSE r
        child(sub) == IF sub.kind # "ok" THEN sub
                      ELSE count_children(pgs, current_page, i + 1, total_count + sub.val)
        interior(cell) == IF cell.kind # "ok" THEN cell
                          ELSE child(count_rows_in_page(pgs, cell.val.left))
    IN  IF i > Len(pgs[current_page].cells)
        THEN last(count_rows_in_page(pgs, pgs[current_page].right))
        ELSE interior(extract_interior_cell_data(pgs[current_page].cells[i], FALSE))

\* mutant: the cells of an interior page are counted as rows too
count_rows_with_interior(pgs, current_page) ==
    IF ~HasPage(pgs, current_page) THEN Err("Failed to read page type")
    ELSE IF pgs[current_page].ptype = InteriorTable
    THEN count_children(pgs, current_page, 1, Len(pgs[current_page].cells))
    ELSE get_rows_from_leaf_page(pgs, current_page)

count_rows_in_page(pgs, current_page) ==
    IF ~HasPage(pgs, current_page) THEN Err("Failed to read page type")
    ELSE IF ~IsPageType(pgs[current_page].ptype)
    THEN Err("Received wrong value for page type")
    ELSE IF pgs[current_page].ptype = InteriorTable
    THEN count_children(pgs, current_page, 1, 0)
    ELSE IF pgs[current_page].ptype = LeafTable
    THEN get_rows_from_leaf_page(pgs, current_page)
    ELSE Err("Unhandled page type!")

(***************************************************************************)
(* Point lookup by rowid.                                                  *)
(***************************************************************************)
RECURSIVE child_for_rowid(_, _, _, _)
\* the while loop of find_child_page_for_rowid
child_for_rowid(pgs, page, i, rowid) ==
    LET interior(cell) == IF cell.kind # "ok" THEN cell
                          ELSE IF U64Leq(rowid, cell.val.key) THEN Ok(cell.val.left)
                          ELSE child_for_rowid(pgs, page, i + 1, rowid)
    IN  IF i > Len(pgs[page].cells) THEN Ok(pgs[page].right)
        ELSE interior(extract_interior_cell_data(pgs[page].cells[i], FALSE))

RECURSIVE child_for_rowid_strict(_, _, _, _)
\* mutant: rowid < cell_key instead of rowid <= cell_key
child_for_rowid_strict(pgs, page, i, rowid) ==
    LET interior(cell) == IF cell.kind # "ok" THEN cell
                          ELSE IF U64Leq(rowid, cell.val.key) /\ rowid # cell.val.key
                          THEN Ok(cell.val.left)
                          ELSE child_for_rowid_strict(pgs, page, i + 1, rowid)
    IN  IF i > Len(pgs[page].cells) THEN Ok(pgs[page].right)
        ELSE interior(extract_interior_cell_data(pgs[page].cells[i], FALSE))

find_child_page_strict(pgs, page, rowid) == child_for_rowid_strict(pgs, page, 1, rowid)

find_child_page_for_rowid(pgs, page, rowid) == child_for_rowid(pgs, page, 1, rowid)

RECURSIVE leaf_row(_, _, _, _)
\* the for loop of find_row_in_leaf
leaf_row(cells, i, q, rowid) ==
    LET cell(c) == IF c.kind # "ok" THEN c
                   ELSE IF c.val.rowid = rowid
                   THEN project(c.val.data, rowid, q.col_idxs, q.col_types, 1, <<>>)
                   ELSE leaf_row(cells, i + 1, q, rowid)
    IN  IF i > Len(cells) THEN Err("Rowid not found in leaf page")
        ELSE cell(get_cell_data(cells[i], FALSE))

find_row_in_leaf(pgs, page, q, rowid) == leaf_row(pgs[page].cells, 1, q, rowid)

RECURSIVE find_row_by_rowid(_, _, _, _)
find_row_by_rowid(pgs, curr_page, q, rowid) ==
    LET descend(child_page) == IF child_page.kind # "ok" THEN child_page
                               ELSE find_row_by_rowid(pgs, child_page.val, q, rowid)
    IN  IF ~HasPage(pgs, curr_page) THEN Err("read_exact: failed to fill whole buffer")
        ELSE IF ~IsPageType(pgs[curr_page].ptype)
        THEN Err("Received wrong value for page type")
        ELSE IF pgs[curr_page].ptype = InteriorTable
        THEN descend(find_child_page_for_rowid(pgs, curr_page, rowid))
        ELSE IF pgs[curr_page].ptype = LeafTable
        THEN find_row_in_leaf(pgs, curr_page, q, rowid)
        ELSE Err("Unexpected page type in table btree")

RECURSIVE rows_by_rowids(_, _, _, _, _, _)
\* the for loop of get_rows_by_rowids
rows_by_rowids(pgs, rootpage, q, rowids, i, results) ==
    LET push(row) ==
            IF row.kind # "ok" THEN row
            ELSE rows_by_rowids(pgs, rootpage, q, rowids, i + 1, Append(results, row.val))
    IN  IF i > Len(rowids) THEN Ok(results)
        ELSE push(find_row_by_rowid(pgs, rootpage, q, rowids[i]))

Reverse(s) == [i \in 1..Len(s) |-> s[Len(s) + 1 - i]]

\* the lookups made from the last rowid to the first
get_rows_by_rowids_last_first(pgs, rootpage, q, rowids) ==
    rows_by_rowids(pgs, rootpage, q, Reverse(rowids), 1, <<>>)

get_rows_by_rowids(pgs, rootpage, q, rowids) ==
    rows_by_rowids(pgs, rootpage, q, rowids, 1, <<>>)

(***************************************************************************)
(* Index equality scan.                                                    *)
(***************************************************************************)
\* `as u64` of an i64: the same 64 bits
I64AsU64(b) == [k \in 1..4 |-> b[2 * k - 1] * 256 + b[2 * k]]

RECURSIVE index_page_rowids(_, _, _, _)
\* the for loop of get_index_page_data
index_page_rowids(cells, i, index_val, result) ==
    LET entry(value, rowid) ==
            IF rowid.kind # "ok" THEN rowid
            ELSE IF eq_ignore_ascii_case(value, index_val)
            THEN index_page_rowids(cells, i + 1, index_val,
                                   Append(result, I64AsU64(rowid.val)))
            ELSE index_page_rowids(cells, i + 1, index_val, result)
        cell(c) ==
            IF c.kind # "ok" THEN c
            ELSE IF Len(c.val.data) < 2 THEN Panic("index out of bounds")
            ELSE entry(extract_string(c.val.data[1]), extract_integer(c.val.data[2]))
    IN  IF i > Len(cells) THEN Ok(result)
        ELSE cell(get_cell_data(cells[i], TRUE))

get_index_page_data(pgs, index_curr_page, index_val) ==
    IF ~HasPage(pgs, index_curr_page) THEN Err("Failed to read page header")
    ELSE index_page_rowids(pgs[index_curr_page].cells, 1, index_val, <<>>)

RECURSIVE get_rowids_index(_, _, _, _)
RECURSIVE index_children(_, _, _, _, _)

\* the while loop over the interior index cells, then the right-most child
index_children(pgs, index_curr_page, i, index_val, rowids) ==
    LET child(sub) == IF sub.kind # "ok" THEN sub
                      ELSE index_children(pgs, index_curr_page, i + 1, index_val, sub.val)
        interior(cell) == IF cell.kind # "ok" THEN cell
                          ELSE child(get_rowids_index(pgs, cell.val.left, index_val, rowids))
    IN  IF i > Len(pgs[index_curr_page].cells)
        THEN get_rowids_index(pgs, pgs[index_curr_page].right, index_val, rowids)
        ELSE interior(extract_interior_cell_data(pgs[index_curr_page].cells[i], TRUE))

get_rowids_index(pgs, index_curr_page, index_val, rowids) ==
    LET leaf(page_rowids) == IF page_rowids.kind = "ok" THEN Ok(rowids \o page_rowids.val)
                             ELSE page_rowids
    IN  IF ~HasPage(pgs, index_curr_page) THEN Err("Failed to read page type")
        ELSE IF ~IsPageType(pgs[index_curr_page].ptype)
        THEN Err("Received wrong value for page type")
        ELSE IF pgs[index_curr_page].ptype = InteriorIndex
        THEN index_children(pgs, index_curr_page, 1, index_val, rowids)
        ELSE IF pgs[index_curr_page].ptype = LeafIndex
        THEN leaf(get_index_page_data(pgs, index_curr_page, index_val))
        ELSE Err("Unhandled page type!")

get_cols_data_with_index(pgs, rootpage, q, index_rootpage, index_val) ==
    LET lookup(rowids) == IF rowids.kind # "ok" THEN rowids
                          ELSE get_rows_by_rowids(pgs, rootpage, q, rowids.val)
    IN  lookup(get_rowids_index(pgs, index_rootpage, index_val, <<>>))

(***************************************************************************)
(* The cell reader on its own: data is a table-leaf or index-leaf cell     *)
(* around an arbitrary payload, followed by the rest of the file.          *)
(***************************************************************************)
MaxPayload == 4

PayloadBytes == {0, 1, 2, 3, 15, 129}

\* the file after the cell: enough for the reader's 9-byte reads
RestOfFile == [i \in 1..18 |-> 0]

InitRecord ==
    /\ given \in {[payload |-> p, index_cell |-> ic] :
                     p \in SeqsUpTo(PayloadBytes, MaxPayload), ic \in BOOLEAN}
    /\ data = <<Len(given.payload)>>
                \o (IF given.index_cell THEN <<>> ELSE <<5>>)
                \o given.payload \o RestOfFile
    /\ ret = None
    /\ Idle

GetCellData ==
    /\ ret = None
    /\ "payload" \in DOMAIN given
    /\ ret' = [fn |-> "get_cell_data", res |-> get_cell_data(data, given.index_cell)]
    /\ UNCHANGED <<data, given, pages, query, pc, rows, out>>

\* the caller's next step on the record: the filter column as text
FilterText ==
    /\ ret.fn = "get_cell_data"
    /\ ret.res.kind = "ok"
    /\ \E fcol \in 0..1 :
          ret' = [fn |-> "extract_string",
                  res |-> IF fcol < Len(ret.res.val.data)
                          THEN Ok(extract_string(ret.res.val.data[fcol + 1]))
                          ELSE Panic("index out of bounds")]
    /\ UNCHANGED <<data, given, pages, query, pc, rows, out>>

NextRecord == GetCellData \/ FilterText

SpecRecord == InitRecord /\ [][NextRecord]_vars

RECURSIVE SumLen(_)
SumLen(cols) == IF Len(cols) = 0 THEN 0 ELSE Len(cols[1]) + SumLen(Tail(cols))

RECURSIVE RefHeader(_, _, _)
\* the header of a payload read by the file format: the serial types, and
\* whether a serial-type varint ran past header_size or past the payload
RefHeader(p, pos, H) ==
    IF pos >= H THEN [types |-> <<>>, overrun |-> pos > H]
    ELSE IF pos >= Len(p) THEN [types |-> <<>>, overrun |-> TRUE]
    ELSE LET v == read_varint(SubSeq(p, pos + 1, Len(p)))
             more == RefHeader(p, pos + v.len, H)
         IN  [types |-> <<AsUsize(v.val)>> \o more.types, overrun |-> more.overrun]

RECURSIVE SumSizes(_)
SumSizes(types) ==
    IF Len(types) = 0 THEN 0
    ELSE get_serial_type_size(types[1]) + SumSizes(Tail(types))

HeaderSize(p) == AsUsize(read_varint(p).val)

\* the payload is malformed: its columns or its header varints overrun
Overruns(p) ==
    LET h == RefHeader(p, read_varint(p).len, HeaderSize(p))
    IN  h.overrun \/ HeaderSize(p) + SumSizes(h.types) > Len(p)

\* C9: decoding fails with an error value whenever the column sizes run past
\* the payload or the serial-type varints run past header_size, and on every
\* accepted payload header_size plus the column sizes equals the payload size.
C9_MalformedRecord ==
    (ret.fn = "get_cell_data") =>
        /\ Overruns(given.payload) => ret.res.kind = "err"
        /\ ret.res.kind = "ok" =>
              HeaderSize(given.payload) + SumLen(ret.res.val.data) = Len(given.payload)

(***************************************************************************)
(* Well-formed files.  The writers below lay out records, cells and        *)
(* B-tree pages the way the file format does; the readers above are run    *)
(* on what they produce.                                                   *)
(***************************************************************************)
Null == [st |-> 0, body |-> <<>>]
Text(t) == [st |-> 13 + 2 * Len(t), body |-> t]

\* an integer 0..127 under the serial type SQLite picks: 8, 9 or 1
IntCol(n) == IF n = 0 THEN [st |-> 8, body |-> <<>>]
             ELSE IF n = 1 THEN [st |-> 9, body |-> <<>>]
             ELSE [st |-> 1, body |-> <<n>>]

RECURSIVE ColBodies(_)
ColBodies(cols) == IF Len(cols) = 0 THEN <<>> ELSE cols[1].body \o ColBodies(Tail(cols))

\* [header_size][serial types][bodies], every varint one byte long
MakeRecord(cols) ==
    <<1 + Len(cols)>> \o [i \in 1..Len(cols) |-> cols[i].st] \o ColBodies(cols)

TableLeafCell(rowid, payload) ==
    EncodeVarint(U64(Len(payload))) \o EncodeVarint(U64(rowid)) \o payload \o RestOfFile

TableInteriorCell(left, key) ==
    <<0, 0, 0, left>> \o EncodeVarint(U64(key)) \o RestOfFile

IndexLeafCell(payload) ==
    EncodeVarint(U64(Len(payload))) \o payload \o RestOfFile

IndexInteriorCell(left, payload) ==
    <<0, 0, 0, left>> \o EncodeVarint(U64(Len(payload))) \o payload \o RestOfFile

Max(S) == CHOOSE x \in S : \A y \in S : y <= x
Min(S) == CHOOSE x \in S : \A y \in S : x <= y

RECURSIVE SortedSeq(_)
\* the members of a set of integers in increasing order
SortedSeq(S) == IF S = {} THEN <<>> ELSE <<Min(S)>> \o SortedSeq(S \ {Min(S)})

\* the function a set of <<page number, page>> pairs denotes
FileOf(pairs) == [n \in {pr[1] : pr \in pairs} |-> (CHOOSE pr \in pairs : pr[1] = n)[2]]

\* the position after the last cut of S below e
StartAfter(S, e) == 1 + Max({c \in S : c < e} \cup {0})

(***************************************************************************)
(* A table B-tree over recs, sorted by rowid.  level[c] > 0 puts a page    *)
(* boundary after row c: 1 between two leaves of one parent, 2 between     *)
(* two interior pages below the root.  key[c] is the key of the interior   *)
(* cell at that boundary.  Pages are numbered against the key order.       *)
(***************************************************************************)
Cuts(level) == {c \in DOMAIN level : level[c] >= 1}
Tops(level) == {c \in DOMAIN level : level[c] = 2}

\* every interior page below the root has at least one cell
ValidLevels(n, level) ==
    \A d \in Tops(level) \cup {n} :
        Tops(level) # {} =>
            \E c \in Cuts(level) \ Tops(level) : StartAfter(Tops(level), d) <= c /\ c < d

TableLeafPg(root, level, e) == IF Cuts(level) = {} THEN root ELSE root + 20 - e
TableMidPg(root, level, d) == root + 10 - d

TableLeafPage(recs, level, e) ==
    LET first == StartAfter(Cuts(level), e)
    IN  [ptype |-> LeafTable,
         cells |-> [i \in 1..(e - first + 1) |->
                       TableLeafCell(recs[first + i - 1].rowid,
                                     MakeRecord(recs[first + i - 1].cols))],
         right |-> 0]

\* an interior page with a cell at each cut of S and the child at e last
TableInteriorPage(S, key, child, e) ==
    LET cs == SortedSeq(S)
    IN  [ptype |-> InteriorTable,
         cells |-> [i \in 1..Len(cs) |-> TableInteriorCell(child[cs[i]], key[cs[i]])],
         right |-> child[e]]

TableTree(root, recs, level, key) ==
    LET n == Len(recs)
        leafpg == [e \in 0..n |-> TableLeafPg(root, level, e)]
        midpg == [d \in 0..n |-> TableMidPg(root, level, d)]
        leaves == {<<leafpg[e], TableLeafPage(recs, level, e)>> : e \in Cuts(level) \cup {n}}
    IN  IF Cuts(level) = {} THEN leaves
        ELSE IF Tops(level) = {}
        THEN leaves \cup {<<root, TableInteriorPage(Cuts(level), key, leafpg, n)>>}
        ELSE leaves
             \cup {<<root, TableInteriorPage(Tops(level), key, midpg, n)>>}
             \cup {<<midpg[d],
                     TableInteriorPage({c \in Cuts(level) \ Tops(level) :
                                           StartAfter(Tops(level), d) <= c /\ c < d},
                                       key, leafpg, d)>> : d \in Tops(level) \cup {n}}

\* the keys an interior cell after row c may carry: at least the last rowid
\* of its left subtree, less than the first rowid to its right
KeyChoices(recs, level) ==
    IF Cuts(level) = {} THEN {<<>>}
    ELSE
    {k \in [Cuts(level) -> 0..(recs[Len(recs)].rowid)] :
        \A c \in Cuts(level) : recs[c].rowid <= k[c] /\ k[c] < recs[c + 1].rowid}

\* page 1 holds sqlite_schema
SchemaPage == [ptype |-> LeafTable, cells |-> <<>>, right |-> 0]

(***************************************************************************)
(* The table walkers on well-formed table B-trees of height 1 to 3.        *)
(* The table has two columns; column 1 is a text that names the row.       *)
(* Column 0 is an INTEGER PRIMARY KEY (stored as NULL, the rowid alias),   *)
(* a plain INTEGER, or a TEXT.                                             *)
(***************************************************************************)
MaxRowid == 5
MaxRows == 4

Variants == {"alias", "int", "text"}

Col0(variant, r) ==
    CASE variant = "alias" -> Null
      [] variant = "int" -> IF r % 3 = 2 THEN IntCol(r + 5) ELSE IntCol(r % 3)
      [] OTHER -> IF r % 2 = 0 THEN Text(<<>>) ELSE Text(<<120>>)

Col0Type(variant) == IF variant = "text" THEN "Text" ELSE "Integer"

RowName(r) == <<96 + r>>

TableRow(variant, r) == [rowid |-> r, cols |-> <<Col0(variant, r), Text(RowName(r))>>]

\* the rows with the rowids of S, in rowid order
TableRows(variant, S) ==
    LET ids == SortedSeq(S) IN [i \in 1..Len(ids) |-> TableRow(variant, ids[i])]

Companies(variant, col1) ==
    [tpe |-> "table", name |-> "companies", tbl_name |-> "companies", rootpage |-> 2,
     columns |-> <<[name |-> "id", tpe |-> Col0Type(variant)],
                   [name |-> col1, tpe |-> "Text"]>>]

Levels(n) == {level \in [1..(n - 1) -> 0..2] : ValidLevels(n, level)}

EmptyColumns(q) == [c \in 1..Len(q.col_idxs) |-> <<>>]

InitTable ==
    /\ \E variant \in Variants, S \in SUBSET (1..MaxRowid) :
          /\ Cardinality(S) <= MaxRows
          /\ given = [recs |-> TableRows(variant, S), variant |-> variant]
          /\ query = [rootpage |-> Companies(variant, "country").rootpage,
                      col_idxs |-> <<0, 1>>,
                      col_types |-> <<Col0Type(variant), "Text">>,
                      filter_col |-> Nothing,
                      filter_val |-> Nothing]
    /\ \E level \in Levels(Len(given.recs)) :
          \E key \in KeyChoices(given.recs, level) :
             pages = FileOf({<<1, SchemaPage>>}
                            \cup TableTree(query.rootpage, given.recs, level, key))
    /\ data = <<>>
    /\ ret = None
    /\ pc = "idle"
    /\ rows = <<>>
    /\ out = <<>>

FullScan ==
    /\ ret = None
    /\ ret' = [fn |-> "get_cols_data_with_filter",
               res |-> get_cols_data_with_filter(pages, query.rootpage, query,
                                                 EmptyColumns(query))]
    /\ UNCHANGED <<data, given, pages, query, pc, rows, out>>

Lookup ==
    /\ ret = None
    /\ \E r \in 0..(MaxRowid + 1) :
          ret' = [fn |-> "find_row_by_rowid", rowid |-> r,
                  res |-> find_row_by_rowid(pages, query.rootpage, query, U64(r))]
    /\ UNCHANGED <<data, given, pages, query, pc, rows, out>>

CountRows ==
    /\ ret = None
    /\ ret' = [fn |-> "count_rows_in_page",
               res |-> count_rows_in_page(pages, query.rootpage)]
    /\ UNCHANGED <<data, given, pages, query, pc, rows, out>>

NextTable == FullScan \/ Lookup \/ CountRows

SpecTable == InitTable /\ [][NextTable]_vars

\* what the full scan of the file yields
ScanNow == get_cols_data_with_filter(pages, query.rootpage, query, EmptyColumns(query))

\* the table pages of the file by kind
TablePagesOf(ptype) == {n \in DOMAIN pages \ {1} : pages[n].ptype = ptype}

\* C3: the full scan visits every leaf cell exactly once, in strictly
\* increasing rowid order (left children in cell order, right-most child
\* last): the rows that come out are the rows of the table in rowid order.
C3_ScanInRowidOrder ==
    ret.fn = "get_cols_data_with_filter" =>
        /\ ret.res.kind = "ok"
        /\ ret.res.val[2] = [i \in 1..Len(given.recs) |-> RowName(given.recs[i].rowid)]
        /\ given.variant = "alias" =>
              ret.res.val[1] = [i \in 1..Len(given.recs) |-> Digits(given.recs[i].rowid)]
        /\ \A i \in 1..(Len(given.recs) - 1) :
              given.recs[i].rowid < given.recs[i + 1].rowid

\* a tree of height 3 has been scanned
C3_Witness ==
    /\ ret.fn = "get_cols_data_with_filter"
    /\ \E n \in TablePagesOf(InteriorTable) : n # query.rootpage
    /\ Len(ret.res.val[2]) = MaxRows

\* row i of a scan result
ScanRow(columns, i) == [c \in 1..Len(columns) |-> columns[c][i]]

\* C2: on a well-formed table B-tree the point lookup of a stored rowid
\* returns the projection of the record the full scan yields for it, and the
\* lookup of a rowid that is not stored fails with the not-found error.
C2_PointLookup ==
    ret.fn = "find_row_by_rowid" =>
        LET stored == {i \in 1..Len(given.recs) : given.recs[i].rowid = ret.rowid}
        IN  IF stored # {}
            THEN \A i \in stored :
                    /\ ScanNow.val[2][i] = RowName(ret.rowid)
                    /\ ret.res = Ok(ScanRow(ScanNow.val, i))
            ELSE ret.res = Err("Rowid not found in leaf page")

\* a stored rowid has been looked up through two interior levels, below a
\* cell whose key is larger than every rowid of its left subtree
C2_Witness ==
    /\ ret.fn = "find_row_by_rowid"
    /\ ret.res.kind = "ok"
    /\ \E n \in TablePagesOf(InteriorTable) : n # query.rootpage
    /\ \E i \in 1..(Len(given.recs) - 1) :
          /\ given.recs[i].rowid = ret.rowid
          /\ \E n \in TablePagesOf(InteriorTable) : \E k \in 1..Len(pages[n].cells) :
                LET cell == extract_interior_cell_data(pages[n].cells[k], FALSE).val
                IN  /\ U64Leq(U64(ret.rowid), cell.key)
                    /\ cell.key # U64(ret.rowid)
                    /\ U64Leq(cell.key, U64(given.recs[i + 1].rowid))

\* a rowid that is not stored has been looked up in a tree with interior pages
C2_WitnessAbsent ==
    /\ ret.fn = "find_row_by_rowid"
    /\ ret.res.kind = "err"
    /\ TablePagesOf(InteriorTable) # {}
    /\ \E i \in 1..Len(given.recs) : given.recs[i].rowid > ret.rowid

RECURSIVE SumCells(_)
\* the sum of n_cells over a set of pages
SumCells(S) == IF S = {} THEN 0
               ELSE LET n == CHOOSE x \in S : TRUE
                    IN  Len(pages[n].cells) + SumCells(S \ {n})

\* C4: the COUNT result equals the number of rows the full scan yields: the
\* sum of n_cells over the leaf pages, no interior cell counted.
C4_CountEqualsScan ==
    ret.fn = "count_rows_in_page" =>
        /\ ret.res.kind = "ok"
        /\ ret.res.val = Len(ScanNow.val[1])
        /\ ret.res.val = SumCells(TablePagesOf(LeafTable))

\* the rows of a tree of height 3 have been counted
C4_Witness ==
    /\ ret.fn = "count_rows_in_page"
    /\ \E n \in TablePagesOf(InteriorTable) : n # query.rootpage
    /\ ret.res = Ok(MaxRows)

\* what a stored column reads as
StoredText(col) ==
    CASE col.st = 8 -> Digits(0)
      [] col.st = 9 -> Digits(1)
      [] col.st \in 1..6 -> I64ToString(SignExtend(col.body))
      [] OTHER -> col.body

\* column 0 of a row as the claim has it: the rowid for a NULL, else the
\* stored value
AliasOrStored(rec) ==
    IF rec.cols[1].st = 0 THEN Digits(rec.rowid) ELSE StoredText(rec.cols[1])

\* C5: in the full scan and in the rowid lookup, projected column 0 is the
\* rowid in decimal when the record's column 0 is NULL, and the stored value
\* when its serial type is not NULL (serial types 8, 9, an empty text).
C5_RowidAlias ==
    /\ (ret.fn = "get_cols_data_with_filter" /\ ret.res.kind = "ok") =>
          \A i \in 1..Len(given.recs) : ret.res.val[1][i] = AliasOrStored(given.recs[i])
    /\ (ret.fn = "find_row_by_rowid" /\ ret.res.kind = "ok") =>
          \A i \in 1..Len(given.recs) :
             given.recs[i].rowid = ret.rowid => ret.res.val[1] = AliasOrStored(given.recs[i])

(***************************************************************************)
(* An index B-tree over entries <<key text, rowid>> sorted by key, then    *)
(* rowid.  The entries at the positions of P sit in the cells of an        *)
(* interior root, the entries between them in leaves.                      *)
(***************************************************************************)
IndexPayload(entry) == MakeRecord(<<Text(entry[1]), IntCol(entry[2])>>)

IndexLeafPg(root, P, e) == IF P = {} THEN root ELSE root + 40 - e

IndexLeafPage(entries, P, e) ==
    LET first == StartAfter(P, e)
    IN  [ptype |-> LeafIndex,
         cells |-> [i \in 1..(e - first) |-> IndexLeafCell(IndexPayload(entries[first + i - 1]))],
         right |-> 0]

IndexTree(root, entries, P) ==
    LET m == Len(entries)
        ps == SortedSeq(P)
        leaves == {<<IndexLeafPg(root, P, e), IndexLeafPage(entries, P, e)>> :
                      e \in P \cup {m + 1}}
    IN  IF P = {} THEN leaves
        ELSE leaves \cup
             {<<root,
                [ptype |-> InteriorIndex,
                 cells |-> [i \in 1..Len(ps) |->
                               IndexInteriorCell(IndexLeafPg(root, P, ps[i]),
                                                 IndexPayload(entries[ps[i]]))],
                 right |-> IndexLeafPg(root, P, m + 1)]>>}

\* the interior positions that leave no leaf empty
IndexShapes(m) ==
    {P \in SUBSET (2..(m - 1)) : \A x \in P : x + 1 \notin P}

\* byte-wise order of two texts of the same length
TextLess(a, b) ==
    \E i \in 1..Len(a) : a[i] < b[i] /\ \A j \in 1..(i - 1) : a[j] = b[j]

EntryLess(x, y) == TextLess(x[1], y[1]) \/ (x[1] = y[1] /\ x[2] < y[2])

RECURSIVE SortEntries(_)
SortEntries(S) ==
    IF S = {} THEN <<>>
    ELSE LET least == CHOOSE x \in S : \A y \in S \ {x} : EntryLess(x, y)
         IN  <<least>> \o SortEntries(S \ {least})

\* the index entries of a table on its column 1
IndexEntries(recs) ==
    SortEntries({<<recs[i].cols[2].body, recs[i].rowid>> : i \in 1..Len(recs)})

CompaniesCountryIndex ==
    [tpe |-> "index", name |-> "idx_companies_country", tbl_name |-> "companies",
     rootpage |-> 3, columns |-> <<>>]

(***************************************************************************)
(* The index scan against the filtered table scan.  The table has an       *)
(* INTEGER PRIMARY KEY and a country; the rowids start at 2, the first     *)
(* that the index stores with a body (serial type 1).                      *)
(***************************************************************************)
Countries == {<<97>>, <<65>>, <<98>>}

Literals == {<<97>>, <<66>>, <<99>>}

CountryRow(r, country) == [rowid |-> r, cols |-> <<Null, Text(country)>>]

\* tables of n rows with rowids first..first+n-1 and any countries
CountryTables(first, n) ==
    {[i \in 1..n |-> CountryRow(first + i - 1, c[i])] : c \in [1..n -> Countries]}

\* the keys that equal the last rowid of the left subtree
TightKeys(recs, level) == [c \in Cuts(level) |-> recs[c].rowid]

MaxIndexRows == 3

InitIndex ==
    /\ \E n \in 0..MaxIndexRows : \E recs \in CountryTables(2, n) :
          given = [recs |-> recs, variant |-> "alias"]
    /\ query = [rootpage |-> Companies("alias", "country").rootpage,
                index_rootpage |-> CompaniesCountryIndex.rootpage,
                col_idxs |-> <<0>>,
                col_types |-> <<"Integer">>,
                filter_col |-> Some(1),
                filter_val |-> Nothing]
    /\ \E level \in Levels(Len(given.recs)), P \in IndexShapes(Len(given.recs)) :
          pages = FileOf({<<1, SchemaPage>>}
                         \cup TableTree(query.rootpage, given.recs, level,
                                        TightKeys(given.recs, level))
                         \cup IndexTree(query.index_rootpage, IndexEntries(given.recs), P))
    /\ data = <<>>
    /\ ret = None
    /\ pc = "idle"
    /\ rows = <<>>
    /\ out = <<>>

IndexScan ==
    /\ ret = None
    /\ \E v \in Literals :
          /\ query' = [query EXCEPT !.filter_val = Some(v)]
          /\ ret' = [fn |-> "get_rowids_index",
                     res |-> get_rowids_index(pages, query.index_rootpage, v, <<>>)]
    /\ UNCHANGED <<data, given, pages, pc, rows, out>>

FilterScan ==
    /\ ret = None
    /\ \E v \in Literals : \E q \in {[query EXCEPT !.filter_val = Some(v)]} :
          /\ query' = q
          /\ ret' = [fn |-> "get_cols_data_with_filter",
                     res |-> get_cols_data_with_filter(pages, query.rootpage, q,
                                                       EmptyColumns(q))]
    /\ UNCHANGED <<data, given, pages, pc, rows, out>>

\* the rowids the index scan has found are looked up in the table
RowsByRowids ==
    /\ ret.fn = "get_rowids_index"
    /\ ret.res.kind = "ok"
    /\ ret' = [fn |-> "get_rows_by_rowids",
               rowids |-> ret.res.val,
               res |-> get_rows_by_rowids(pages, query.rootpage, query, ret.res.val)]
    /\ UNCHANGED <<data, given, pages, query, pc, rows, out>>

NextIndex == IndexScan \/ FilterScan \/ RowsByRowids

SpecIndex == InitIndex /\ [][NextIndex]_vars

\* how often x occurs in the sequence s
Count(s, x) == Cardinality({i \in 1..Len(s) : s[i] = x})

SameBag(s, t) == \A x \in {s[i] : i \in 1..Len(s)} \cup {t[i] : i \in 1..Len(t)} :
                    Count(s, x) = Count(t, x)

\* C1: the rowids the index equality scan collects are, as a multiset, the
\* rowids of the rows the full table scan finds with that column value; an
\* entry in an interior index cell whose key matches contributes its rowid.
C1_IndexAgreesWithScan ==
    ret.fn = "get_rowids_index" =>
        /\ ret.res.kind = "ok"
        /\ SameBag([i \in 1..Len(ret.res.val) |-> U64ToString(ret.res.val[i])],
                   ScanNow.val[1])

(***************************************************************************)
(* A SQL query from the command line.  sql is what the three regular       *)
(* expressions capture: whether the SELECT COUNT form matches, the table   *)
(* name, the selected column names, and the WHERE column and literal.      *)
(* query.tables_info is the schema as loaded; pc is the position in        *)
(* execute_sql_query_command, rows the result collected and not yet        *)
(* printed, out the lines printed on standard output.                      *)
(***************************************************************************)
get_table_count(pgs, tinfo) == count_rows_in_page(pgs, tinfo.rootpage)

find_index_root_page(tables_info, table_name) ==
    LET hits == {i \in 1..Len(tables_info) : /\ tables_info[i].tpe = "index"
                                             /\ tables_info[i].tbl_name = table_name}
    IN  IF hits = {} THEN Nothing ELSE Some(tables_info[Min(hits)].rootpage)

\* the positions of the columns of a table with this name
ColumnsNamed(tinfo, name) == {i \in 1..Len(tinfo.columns) : tinfo.columns[i].name = name}

RECURSIVE FoundColumns(_, _)
\* the first column of each selected name the table has, in the order selected
FoundColumns(tinfo, col_names) ==
    IF col_names = <<>> THEN <<>>
    ELSE LET at == ColumnsNamed(tinfo, Head(col_names))
         IN  (IF at = {} THEN <<>> ELSE <<Min(at)>>) \o FoundColumns(tinfo, Tail(col_names))

RECURSIVE Join(_)
\* row.join("|")
Join(row) ==
    IF Len(row) = 0 THEN <<>>
    ELSE IF Len(row) = 1 THEN row[1]
    ELSE row[1] \o <<124>> \o Join(Tail(row))

\* the rows the printing loop of the full scan builds from the columns
RowsOf(columns) == [i \in 1..Len(columns[1]) |-> ScanRow(columns, i)]

\* the column loops: the selected columns the table has, and the filter
select_plan(tinfo, sql) ==
    LET found == FoundColumns(tinfo, sql.col_names)
        where == sql.where
        at == IF where.some THEN ColumnsNamed(tinfo, where.v.col_name) ELSE {}
    IN  [col_idxs |-> [k \in 1..Len(found) |-> found[k] - 1],
         col_types |-> [k \in 1..Len(found) |-> tinfo.columns[found[k]].tpe],
         filter_col |-> IF at # {} THEN Some(Min(at) - 1) ELSE Nothing,
         filter_val |-> IF where.some THEN Some(where.v.val) ELSE Nothing,
         use_index |-> at # {} /\ where.v.col_name = "country"]

\* mutant: the result of the step is dropped and the printing loop runs
try_unchecked(res, collected) ==
    [pc |-> "print", rows |-> collected,
     res |-> IF res.kind = "ok" THEN Ok(<<>>) ELSE [kind |-> res.kind, why |-> res.why]]

\* where the query stands once a step has returned res: the ? operator
\* leaves with the error, and collected holds what the step had gathered
try(res, collected) ==
    IF res.kind = "ok" THEN [pc |-> "print", rows |-> collected, res |-> Ok(<<>>)]
    ELSE [pc |-> "failed", rows |-> collected, res |-> [kind |-> res.kind, why |-> res.why]]

\* the full-scan branch
select_scan(pgs, tinfo, plan) ==
    LET scanned(scan) ==
            IF Len(plan.col_idxs) = 0
            THEN try(IF scan.kind = "ok" THEN Panic("index out of bounds") ELSE scan, <<>>)
            ELSE try(scan, RowsOf(IF scan.kind = "ok" THEN scan.val ELSE scan.columns))
    IN  scanned(get_cols_data_with_filter(pgs, tinfo.rootpage, plan, EmptyColumns(plan)))

\* the index branch
select_index(pgs, tables_info, tinfo, plan, table_name) ==
    LET looked_up(found) == try(found, IF found.kind = "ok" THEN found.val ELSE <<>>)
        index(index_root) ==
            IF ~index_root.some THEN try(Err("Index not found"), <<>>)
            ELSE looked_up(get_cols_data_with_index(pgs, tinfo.rootpage, plan,
                                                    index_root.v, plan.filter_val.v))
    IN  index(find_index_root_page(tables_info, table_name))

execute_sql_query_command(pgs, tables_info, sql) ==
    LET named == {i \in 1..Len(tables_info) : tables_info[i].tbl_name = sql.table_name}
        counted(count) ==
            try(count, IF count.kind = "ok" THEN <<<<Digits(count.val)>>>> ELSE <<>>)
        select(tinfo, plan) ==
            IF plan.use_index
            THEN select_index(pgs, tables_info, tinfo, plan, sql.table_name)
            ELSE select_scan(pgs, tinfo, plan)
        table(tinfo) ==
            IF sql.count THEN counted(get_table_count(pgs, tinfo))
            ELSE select(tinfo, select_plan(tinfo, sql))
    IN  IF named = {} THEN try(Err("Table not found"), <<>>)
        ELSE table(tables_info[Min(named)])

(***************************************************************************)
(* The queries tried, on files that are sound or have one page whose type  *)
(* byte is not a B-tree page type.  Column 1 of the table is named         *)
(* country, which sends a WHERE on it to the index, or name, which keeps   *)
(* it on the full scan.  Rowids start at 1.  The table has an index on     *)
(* column 1, listed in the schema after the table, or no index at all.     *)
(***************************************************************************)
MaxQueryRows == 3

QueryCountries == {<<97>>, <<98>>}

QueryLiterals == {<<65>>, <<98>>}

QueryTables(n) ==
    {[i \in 1..n |-> CountryRow(i, c[i])] : c \in [1..n -> QueryCountries]}

\* one leaf, or one leaf for each row under an interior root
QueryLevels(n) == {[c \in 1..(n - 1) |-> 0], [c \in 1..(n - 1) |-> 1]}

\* page p with a type byte of 0; p = 0 leaves the file as it is
Damaged(pgs, p) == IF p = 0 THEN pgs ELSE [pgs EXCEPT ![p].ptype = 0]

Where(col_name, val) == Some([col_name |-> col_name, val |-> val])

Queries ==
    {[count |-> TRUE, table_name |-> t, col_names |-> <<"COUNT(*)">>, where |-> Nothing] :
        t \in {"companies", "apples"}}
    \cup {[count |-> FALSE, table_name |-> "companies", col_names |-> cols, where |-> w] :
            cols \in {<<"id", "country">>, <<"name", "id">>, <<"name">>, <<"id">>},
            w \in {Nothing} \cup {Where(c, v) : c \in {"country", "name"}, v \in QueryLiterals}}

InitQuery ==
    /\ \E n \in 1..MaxQueryRows : \E recs \in QueryTables(n), indexed \in BOOLEAN :
          given = [recs |-> recs, variant |-> "alias", indexed |-> indexed]
    /\ \E col1 \in {"country", "name"} :
          query = [tables_info |-> <<Companies("alias", col1)>>
                                   \o (IF given.indexed THEN <<CompaniesCountryIndex>>
                                       ELSE <<>>),
                   sql |-> Nothing]
    /\ \E level \in QueryLevels(Len(given.recs)), P \in IndexShapes(Len(given.recs)) :
          LET sound == FileOf({<<1, SchemaPage>>}
                         \cup TableTree(query.tables_info[1].rootpage, given.recs, level,
                                        TightKeys(given.recs, level))
                         \cup (IF given.indexed
                               THEN IndexTree(CompaniesCountryIndex.rootpage,
                                              IndexEntries(given.recs), P)
                               ELSE {}))
          IN  \E p \in {0} \cup (DOMAIN sound \ {1}) : pages = Damaged(sound, p)
    /\ data = <<>>
    /\ ret = None
    /\ pc = "start"
    /\ rows = <<>>
    /\ out = <<>>

\* the query up to its printing loop
ExecuteQuery ==
    /\ pc = "start"
    /\ \E sql \in Queries :
          \E at \in {execute_sql_query_command(pages, query.tables_info, sql)} :
              /\ query' = [query EXCEPT !.sql = Some(sql)]
              /\ pc' = at.pc
              /\ rows' = at.rows
              /\ ret' = [fn |-> "execute_sql_query_command", res |-> at.res]
    /\ UNCHANGED <<data, given, pages, out>>

\* println!: one pass of the printing loop
PrintRow ==
    /\ pc = "print"
    /\ rows # <<>>
    /\ out' = Append(out, Join(Head(rows)))
    /\ rows' = Tail(rows)
    /\ UNCHANGED <<data, given, ret, pages, query, pc>>

\* return Ok(())
ReturnOk ==
    /\ pc = "print"
    /\ rows = <<>>
    /\ pc' = "done"
    /\ UNCHANGED <<data, given, ret, pages, query, rows, out>>

NextQuery == ExecuteQuery \/ PrintRow \/ ReturnOk

SpecQuery == InitQuery /\ [][NextQuery]_vars

\* C7: a query never emits partial results: when a page read, a cell read or
\* a row decode fails anywhere in the traversal, on the full-scan path or on
\* the index path, the query ends with the error and nothing printed; a line
\* is printed only once the whole traversal has succeeded.
C7_NoPartialResults ==
    /\ pc = "failed" => ret.res.kind # "ok" /\ out = <<>>
    /\ out # <<>> => ret.res.kind = "ok" /\ pc \in {"print", "done"}
    /\ pc \in {"print", "done"} => ret.res.kind = "ok"

\* a SELECT failed after the scan had collected rows, and printed nothing
C7_Witness ==
    /\ pc = "failed"
    /\ ~query.sql.v.count
    /\ rows # <<>>
    /\ out = <<>>

\* a SELECT through the index failed in the table lookups
C7_WitnessIndex ==
    /\ pc = "failed"
    /\ select_plan(query.tables_info[1], query.sql.v).use_index
    /\ ret.res = Err("Rowid not found in leaf page")
    /\ out = <<>>

\* a SELECT succeeded and printed all its rows
C7_WitnessPrinted ==
    /\ pc = "done"
    /\ ~query.sql.v.count
    /\ Len(out) = MaxQueryRows

(***************************************************************************)
(* The schema loader.  Here the file is its bytes: data[k + 1] is the byte *)
(* at offset k.  Texts are sequences of code points; the SQL texts of the  *)
(* model are ASCII, with no quoted column names.                           *)
(***************************************************************************)
IsWordChar(c) == c \in 48..57 \/ c \in 65..90 \/ c \in 97..122 \/ c = 95

IsSpace(c) == c \in {9, 10, 11, 12, 13, 32}

ToLower(s) == [i \in 1..Len(s) |-> ToAsciiLower(s[i])]

RECURSIVE WordEnd(_, _)
\* the end of the run of word characters that starts at position i
WordEnd(s, i) == IF i < Len(s) /\ IsWordChar(s[i + 1]) THEN WordEnd(s, i + 1) ELSE i

RECURSIVE Tokens(_, _)
\* the maximal \w+ runs and the other non-space characters of s from i on
Tokens(s, i) ==
    IF i > Len(s) THEN <<>>
    ELSE IF IsSpace(s[i]) THEN Tokens(s, i + 1)
    ELSE IF IsWordChar(s[i])
    THEN <<SubSeq(s, i, WordEnd(s, i))>> \o Tokens(s, WordEnd(s, i) + 1)
    ELSE <<<<s[i]>>>> \o Tokens(s, i + 1)

IsWord(t) == IsWordChar(t[1])

\* SqlType::from_str on the alternatives of col_re; "" for any other word
TypeOfWord(t) ==
    LET w == ToLower(t)
    IN  IF w \in {<<105, 110, 116, 101, 103, 101, 114>>, <<105, 110, 116>>} THEN "Integer"
        ELSE IF w \in {<<116, 101, 120, 116>>, <<118, 97, 114, 99, 104, 97, 114>>,
                       <<99, 104, 97, 114>>} THEN "Text"
        ELSE IF w \in {<<114, 101, 97, 108>>, <<102, 108, 111, 97, 116>>,
                       <<100, 111, 117, 98, 108, 101>>} THEN "Real"
        ELSE IF w = <<98, 108, 111, 98>> THEN "Blob"
        ELSE ""

RECURSIVE ColumnsOf(_, _)
\* col_re.captures_iter: a word, white space, a type word; matches do not overlap
ColumnsOf(toks, i) ==
    IF i >= Len(toks) THEN <<>>
    ELSE IF IsWord(toks[i]) /\ IsWord(toks[i + 1]) /\ TypeOfWord(toks[i + 1]) # ""
    THEN <<[name |-> toks[i], tpe |-> TypeOfWord(toks[i + 1])]>> \o ColumnsOf(toks, i + 2)
    ELSE ColumnsOf(toks, i + 1)

\* create_re: CREATE TABLE name ( cols_section ), up to the last ")"
parse_columns(sql_str) ==
    LET toks == Tokens(sql_str, 1)
        closing == {j \in 1..Len(toks) : toks[j] = <<41>>}
        heads == {i \in 1..(Len(toks) - 3) :
                     /\ ToLower(toks[i]) = <<99, 114, 101, 97, 116, 101>>
                     /\ ToLower(toks[i + 1]) = <<116, 97, 98, 108, 101>>
                     /\ IsWord(toks[i + 2])
                     /\ toks[i + 3] = <<40>>
                     /\ \E j \in closing : j > i + 3}
    IN  IF heads = {} THEN <<>>
        ELSE ColumnsOf(SubSeq(toks, Min(heads) + 4, Max(closing) - 1), 1)

\* u16::from_be_bytes
U16(hi, lo) == hi * 256 + lo

\* the file from offset k on
FileFrom(file, k) == SubSeq(file, k + 1, Len(file))

read_tbl_info(file, cell_offset) ==
    LET info(rootpage_int, record) ==
            IF rootpage_int.kind # "ok" THEN rootpage_int
            ELSE Ok([tpe |-> extract_string(record[1]),
                     name |-> extract_string(record[2]),
                     tbl_name |-> extract_string(record[3]),
                     rootpage |-> U32(SubSeq(rootpage_int.val, 5, 8)),
                     columns |-> parse_columns(extract_string(record[5]))])
        cell(c) ==
            IF c.kind # "ok" THEN c
            ELSE IF Len(c.val.data) < 5
            THEN Err("Expected at least 5 columns in sqlite_schema")
            ELSE info(extract_integer(c.val.data[4]), c.val.data)
    IN  cell(get_cell_data(FileFrom(file, cell_offset), FALSE))

RECURSIVE tables_loop(_, _, _, _)
\* the while loop of get_tables_info over the bytes read as cell pointers
tables_loop(file, cell_array_contents, i, result) ==
    LET push(tinfo) ==
            IF tinfo.kind # "ok" THEN tinfo
            ELSE tables_loop(file, cell_array_contents, i + 2, Append(result, tinfo.val))
    IN  IF i >= Len(cell_array_contents) THEN Ok(result)
        ELSE push(read_tbl_info(file, U16(cell_array_contents[i + 1],
                                          cell_array_contents[i + 2])))

\* the eight bytes at offset 100 are taken for a leaf page header, and the
\* bytes after them for the cell-pointer array; n_cells is below 2^15 here
get_tables_info(file) ==
    IF Len(file) < 108 THEN Err("read_exact: failed to fill whole buffer")
    ELSE LET n_bytes == U16(file[104], file[105]) * 2
         IN  IF Len(file) < 108 + n_bytes
             THEN Err("read_exact: failed to fill whole buffer")
             ELSE tables_loop(file, SubSeq(file, 109, 108 + n_bytes), 0, <<>>)

\* "CREATE TABLE apples(id integer primary key, name text)"
SqlApples ==
    <<67, 82, 69, 65, 84, 69, 32, 84, 65, 66, 76, 69, 32, 97, 112, 112, 108,
      101, 115, 40, 105, 100, 32, 105, 110, 116, 101, 103, 101, 114, 32, 112,
      114, 105, 109, 97, 114, 121, 32, 107, 101, 121, 44, 32, 110, 97, 109,
      101, 32, 116, 101, 120, 116, 41>>

\* "CREATE INDEX idx ON apples(name)"
SqlIndex ==
    <<67, 82, 69, 65, 84, 69, 32, 73, 78, 68, 69, 88, 32, 105, 100, 120, 32,
      79, 78, 32, 97, 112, 112, 108, 101, 115, 40, 110, 97, 109, 101, 41>>

\* "create table pears (w REAL, note varchar)"
SqlPears ==
    <<99, 114, 101, 97, 116, 101, 32, 116, 97, 98, 108, 101, 32, 112, 101,
      97, 114, 115, 32, 40, 119, 32, 82, 69, 65, 76, 44, 32, 110, 111, 116,
      101, 32, 118, 97, 114, 99, 104, 97, 114, 41>>

\* "CREATE TABLE sqlite_sequence(name,seq)"
SqlSequence ==
    <<67, 82, 69, 65, 84, 69, 32, 84, 65, 66, 76, 69, 32, 115, 113, 108, 105,
      116, 101, 95, 115, 101, 113, 117, 101, 110, 99, 101, 40, 110, 97, 109,
      101, 44, 115, 101, 113, 41>>

\* "SQLite format 3"
Magic ==
    <<83, 81, 76, 105, 116, 101, 32, 102, 111, 114, 109, 97, 116, 32, 51>>
(***************************************************************************)
(* Files as bytes.  A page holds its header, the cell-pointer array, and   *)
(* the cells packed against the end of the page, the first cell last.      *)
(***************************************************************************)
Zeros(n) == [i \in 1..n |-> 0]

U16Bytes(n) == <<n \div 256, n % 256>>

RECURSIVE SumLens(_, _)
\* the length of the first k cells together
SumLens(cells, k) == IF k = 0 THEN 0 ELSE Len(cells[k]) + SumLens(cells, k - 1)

RECURSIVE PackedCells(_, _)
\* cells k, k - 1, ..., 1 one after the other
PackedCells(cells, k) == IF k = 0 THEN <<>> ELSE cells[k] \o PackedCells(cells, k - 1)

RECURSIVE CellPointers(_, _, _)
CellPointers(cells, page_size, k) ==
    IF k > Len(cells) THEN <<>>
    ELSE U16Bytes(page_size - SumLens(cells, k)) \o CellPointers(cells, page_size, k + 1)

\* a page of page_size bytes whose page header starts at offset start
PageBytes(start, ptype, right, cells, page_size) ==
    LET n == Len(cells)
        header == <<ptype, 0, 0>> \o U16Bytes(n)
                  \o U16Bytes((page_size - SumLens(cells, n)) % 65536) \o <<0>>
                  \o (IF ptype \in {InteriorIndex, InteriorTable}
                      THEN <<0, 0, 0, right>> ELSE <<>>)
        front == Zeros(start) \o header \o CellPointers(cells, page_size, 1)
    IN  front \o Zeros(page_size - Len(front) - SumLens(cells, n)) \o PackedCells(cells, n)

\* the 100 bytes of the database header: the magic string, the page size
\* field at bytes 16..18, and the fields no code of the program reads
DbHeader(size_field) == Magic \o <<0>> \o U16Bytes(size_field) \o Zeros(82)

\* page 1: the database header over the first 100 bytes of the page
FirstPage(size_field, ptype, right, cells, page_size) ==
    DbHeader(size_field)
    \o FileFrom(PageBytes(100, ptype, right, cells, page_size), 100)

TableLeafCellBytes(rowid, payload) ==
    EncodeVarint(U64(Len(payload))) \o EncodeVarint(U64(rowid)) \o payload

TableInteriorCellBytes(left, key) == <<0, 0, 0, left>> \o EncodeVarint(U64(key))

IndexLeafCellBytes(payload) == EncodeVarint(U64(Len(payload))) \o payload

(***************************************************************************)
(* The schema loader on sqlite_schema trees of height 1 and 2.  The rows   *)
(* of the schema are given.entries, rowids 1, 2, ...; with given.split = k *)
(* above 0, page 1 is an interior root over two leaves, pages 2 and 3,     *)
(* the first holding rows 1..k.                                            *)
(***************************************************************************)
MaxEntries == 3

SchemaPageSize == 2 ^ 9

Str(tpe) == IF tpe = "table" THEN <<116, 97, 98, 108, 101>> ELSE <<105, 110, 100, 101, 120>>

SchemaPool ==
    {[tpe |-> Str("table"), name |-> <<97, 112, 112, 108, 101, 115>>,
      tbl_name |-> <<97, 112, 112, 108, 101, 115>>, rootpage |-> 4, sql |-> SqlApples,
      columns |-> <<[name |-> <<105, 100>>, tpe |-> "Integer"],
                    [name |-> <<110, 97, 109, 101>>, tpe |-> "Text"]>>],
     [tpe |-> Str("index"), name |-> <<105, 100, 120>>,
      tbl_name |-> <<97, 112, 112, 108, 101, 115>>, rootpage |-> 5, sql |-> SqlIndex,
      columns |-> <<>>],
     [tpe |-> Str("table"), name |-> <<112, 101, 97, 114, 115>>,
      tbl_name |-> <<112, 101, 97, 114, 115>>, rootpage |-> 6, sql |-> SqlPears,
      columns |-> <<[name |-> <<119>>, tpe |-> "Real"],
                    [name |-> <<110, 111, 116, 101>>, tpe |-> "Text"]>>],
     [tpe |-> Str("table"),
      name |-> <<115, 113, 108, 105, 116, 101, 95, 115, 101, 113, 117, 101, 110, 99, 101>>,
      tbl_name |-> <<115, 113, 108, 105, 116, 101, 95, 115, 101, 113, 117, 101, 110, 99, 101>>,
      rootpage |-> 7, sql |-> SqlSequence, columns |-> <<>>]}

\* the sequences of n distinct members of S
Arrangements(S, n) ==
    {s \in [1..n -> S] : \A i, j \in 1..n : i # j => s[i] # s[j]}

SchemaRecord(e) ==
    MakeRecord(<<Text(e.tpe), Text(e.name), Text(e.tbl_name), IntCol(e.rootpage),
                 Text(e.sql)>>)

\* the leaf cells of rows from..to of the schema
SchemaCells(entries, from, to) ==
    [i \in 1..(to - from + 1) |->
        TableLeafCellBytes(from + i - 1, SchemaRecord(entries[from + i - 1]))]

SchemaFile(entries, split) ==
    LET n == Len(entries)
        P == SchemaPageSize
    IN  IF split = 0
        THEN FirstPage(P, LeafTable, 0, SchemaCells(entries, 1, n), P)
        ELSE FirstPage(P, InteriorTable, 3, <<TableInteriorCellBytes(2, split)>>, P)
             \o PageBytes(0, LeafTable, 0, SchemaCells(entries, 1, split), P)
             \o PageBytes(0, LeafTable, 0, SchemaCells(entries, split + 1, n), P)

\* what a schema row is loaded as
TableInfoOf(e) ==
    [tpe |-> e.tpe, name |-> e.name, tbl_name |-> e.tbl_name, rootpage |-> e.rootpage,
     columns |-> e.columns]

InitSchema ==
    /\ \E n \in 0..MaxEntries : \E entries \in Arrangements(SchemaPool, n) :
          \E split \in 0..(IF n = 0 THEN 0 ELSE n - 1) :
             given = [entries |-> entries, split |-> split]
    /\ data = SchemaFile(given.entries, given.split)
    /\ ret = None
    /\ Idle

GetTablesInfo ==
    /\ ret = None
    /\ "entries" \in DOMAIN given
    /\ ret' = [fn |-> "get_tables_info", res |-> get_tables_info(data)]
    /\ UNCHANGED <<data, given, pages, query, pc, rows, out>>

RECURSIVE TableNames(_)
\* print!("{} ", table.tbl_name) for every entry
TableNames(v) == IF v = <<>> THEN <<>> ELSE v[1].tbl_name \o <<32>> \o TableNames(Tail(v))

\* execute_tables_command once the schema is loaded
PrintTables ==
    /\ ret.fn = "get_tables_info"
    /\ ret.res.kind = "ok"
    /\ out = <<>>
    /\ out' = <<TableNames(ret.res.val)>>
    /\ UNCHANGED <<data, given, ret, pages, query, pc, rows>>

NextSchema == GetTablesInfo \/ PrintTables

SpecSchema == InitSchema /\ [][NextSchema]_vars

\* C11: the schema loader returns every row of the sqlite_schema tree: one
\* entry per leaf cell, in order, also when page 1 is an interior root over
\* leaf pages, whose interior cells are never parsed as schema rows.
C11_SchemaRows ==
    ret.fn = "get_tables_info" =>
        ret.res = Ok([i \in 1..Len(given.entries) |-> TableInfoOf(given.entries[i])])

\* the loader is right on every schema that fits the leaf page 1
C11_LeafOnly ==
    (ret.fn = "get_tables_info" /\ given.split = 0) =>
        ret.res = Ok([i \in 1..Len(given.entries) |-> TableInfoOf(given.entries[i])])

\* the SELECT of the state has a WHERE on a column of the table
FilteredSelect ==
    /\ ret.fn = "execute_sql_query_command"
    /\ ~query.sql.v.count
    /\ select_plan(query.tables_info[1], query.sql.v).filter_col.some

\* the schema has an index on the table whose first column is the filter column
IndexOnFilterColumn ==
    /\ given.indexed
    /\ select_plan(query.tables_info[1], query.sql.v).filter_col.v = 1

\* C12: a SELECT goes through an index only if the schema has an index on
\* the table whose first column is the filter column; a filter on a column
\* without an index is answered by the full scan, with the full scan's result.
C12_IndexOnFilterColumn ==
    FilteredSelect =>
        LET tinfo == query.tables_info[1]
            plan == select_plan(tinfo, query.sql.v)
        IN  /\ plan.use_index => IndexOnFilterColumn
            /\ ~IndexOnFilterColumn =>
                  LET scan == select_scan(pages, tinfo, plan)
                  IN  /\ ret.res = scan.res
                      /\ pc = "failed" <=> scan.pc = "failed"

(***************************************************************************)
(* The page size and the page offsets.  The file of given.pages pages is   *)
(* kept by what a one-byte read finds: the database header, then the page  *)
(* type byte of a table leaf at the start of every later page.             *)
(***************************************************************************)
MaxPage == 12

\* the values of the page size field: the powers of two 512..32768, and 1
SizeFields == {2 ^ k : k \in 9..15} \cup {1}

\* the page size a value of the header field denotes
PageSizeOf(size_field) == IF size_field = 1 THEN 2 ^ 16 ELSE size_field

\* u16::from_be_bytes([header[16], header[17]])
header_page_size(header) == U16(header[17], header[18])

\* (page_size as u32 * (page_num - 1)) as u64; the product stays below 2^31
\* for the pages of the model
page_offset(page_size, page_num) == page_size * (page_num - 1)

\* the byte of the file at an offset below its length
ByteAt(g, offset) ==
    IF offset < 100 THEN DbHeader(g.size_field)[offset + 1]
    ELSE IF offset % PageSizeOf(g.size_field) = 0 THEN LeafTable
    ELSE 0

\* seek to the page, read_exact of one byte, PageType::from_u8
read_page_type(g, page_size, page_num) ==
    LET at == page_offset(page_size, page_num)
    IN  [offset |-> at,
         res |-> IF at >= g.pages * PageSizeOf(g.size_field)
                 THEN Err("Failed to read page type")
                 ELSE IF IsPageType(ByteAt(g, at)) THEN Ok(ByteAt(g, at))
                 ELSE Err("Received wrong value for page type")]

InitPager ==
    /\ given \in {[size_field |-> f, pages |-> MaxPage] : f \in SizeFields}
    /\ data = DbHeader(given.size_field)
    /\ ret = None
    /\ Idle

\* the header read of execute_sql_query_command
ReadPageSize ==
    /\ ret = None
    /\ "size_field" \in DOMAIN given
    /\ ret' = [fn |-> "page_size", page_size |-> header_page_size(data)]
    /\ UNCHANGED <<data, given, pages, query, pc, rows, out>>

\* the first read of a walker on a page
ReadPageType ==
    /\ ret.fn \in {"page_size", "read_page_type"}
    /\ \E page_num \in 1..given.pages :
          ret' = [fn |-> "read_page_type", page_size |-> ret.page_size,
                  page_num |-> page_num]
                 @@ read_page_type(given, ret.page_size, page_num)
    /\ UNCHANGED <<data, given, pages, query, pc, rows, out>>

NextPager == ReadPageSize \/ ReadPageType

SpecPager == InitPager /\ [][NextPager]_vars

\* C13: the page size is the big-endian u16 at header bytes 16..18, a stored
\* 1 standing for 65536, and page n is read at offset page size * (n - 1),
\* where its page type is found.
C13_PageOffsets ==
    /\ ret.fn = "page_size" => ret.page_size = PageSizeOf(given.size_field)
    /\ ret.fn = "read_page_type" =>
          /\ ret.offset = PageSizeOf(given.size_field) * (ret.page_num - 1)
          /\ ret.page_num > 1 => ret.res = Ok(LeafTable)

\* the offsets are right for every stored page size other than 1
C13_StoredSizes ==
    (ret.fn = "read_page_type" /\ given.size_field # 1) =>
        /\ ret.offset = given.size_field * (ret.page_num - 1)
        /\ ret.page_num > 1 => ret.res = Ok(LeafTable)

(***************************************************************************)
(* The order of the rows of an indexed lookup (SpecIndex).                 *)
(***************************************************************************)
\* the country of the row of the table with this rowid
CountryOf(rowid) ==
    LET k == CHOOSE k \in 1..Len(given.recs) : U64(given.recs[k].rowid) = rowid
    IN  given.recs[k].cols[2].body

\* the index entry a yielded rowid came from
YieldedEntry(rowid) == <<CountryOf(rowid), AsUsize(rowid)>>

\* the rows of a lookup, each the id column of one row
EmittedIds == [i \in 1..Len(ret.res.val) |-> ret.res.val[i][1]]

\* C14 as stated: the rows of an indexed lookup come out in the order the
\* index scan yielded their rowids, that order is ascending rowid, and the
\* rows are those of the full scan with the same filter in the same order.
C14_SameAsFullScan ==
    ret.fn = "get_rows_by_rowids" =>
        /\ ret.res.kind = "ok"
        /\ EmittedIds = [i \in 1..Len(ret.rowids) |-> U64ToString(ret.rowids[i])]
        /\ \A i, j \in 1..Len(ret.rowids) :
              i < j => AsUsize(ret.rowids[i]) < AsUsize(ret.rowids[j])
        /\ EmittedIds = ScanNow.val[1]

\* C14: the rows of an indexed lookup come out in the order the index scan
\* yielded their rowids, one row per yielded rowid, and that order is the
\* order of the index: by key bytes, and by ascending rowid among equal keys.
C14_IndexYieldOrder ==
    ret.fn = "get_rows_by_rowids" =>
        /\ ret.res.kind = "ok"
        /\ EmittedIds = [i \in 1..Len(ret.rowids) |-> U64ToString(ret.rowids[i])]
        /\ \A i, j \in 1..Len(ret.rowids) :
              i < j => EntryLess(YieldedEntry(ret.rowids[i]), YieldedEntry(ret.rowids[j]))

\* two rows yielded and emitted against the order of their rowids
C14_Witness ==
    /\ ret.fn = "get_rows_by_rowids"
    /\ ret.res.kind = "ok"
    /\ \E i, j \in 1..Len(ret.rowids) :
          /\ i < j
          /\ AsUsize(ret.rowids[i]) > AsUsize(ret.rowids[j])
          /\ EmittedIds[i] = U64ToString(ret.rowids[i])
          /\ EmittedIds[j] = U64ToString(ret.rowids[j])

(***************************************************************************)
(* The full-scan SELECT against the rows of the table (SpecQuery).         *)
(***************************************************************************)
\* two bytes that are equal, or the two cases of one ASCII letter
SameLetter(x, y) ==
    \/ x = y
    \/ x \in 65..90 /\ y = x + 32
    \/ x \in 97..122 /\ y = x - 32

MatchesLiteral(text, literal) ==
    /\ Len(text) = Len(literal)
    /\ \A i \in 1..Len(text) : SameLetter(text[i], literal[i])

\* the value of a named column of a row of the table, as printed
PrintedValue(rec, col_name) ==
    IF col_name = "id" THEN Digits(rec.rowid) ELSE rec.cols[2].body

\* the rows a SELECT of the model must emit, in rowid order
ExpectedRows(sql) ==
    LET keep(rec) == sql.where.some =>
                        MatchesLiteral(PrintedValue(rec, sql.where.v.col_name),
                                       sql.where.v.val)
        kept == SelectSeq(given.recs, keep)
    IN  [i \in 1..Len(kept) |->
            [k \in 1..Len(sql.col_names) |-> PrintedValue(kept[i], sql.col_names[k])]]

\* a SELECT on a sound file whose columns all exist and that the planner
\* sends to the full scan has been executed
FullScanSelect ==
    /\ query.sql.some
    /\ ~query.sql.v.count
    /\ \A n \in DOMAIN pages : pages[n].ptype # 0
    /\ \A k \in 1..Len(query.sql.v.col_names) :
          ColumnsNamed(query.tables_info[1], query.sql.v.col_names[k]) # {}
    /\ query.sql.v.where.some =>
          ColumnsNamed(query.tables_info[1], query.sql.v.where.v.col_name) # {}
    /\ ~select_plan(query.tables_info[1], query.sql.v).use_index

\* C15: a full-scan SELECT with a filter emits exactly the rows whose filter
\* column, as text, equals the literal ASCII-case-insensitively, in scan
\* order; with no filter it emits every row; every row has one value for each
\* projected column, so the per-column vectors of the scan have one length.
C15_FilteredScan ==
    FullScanSelect =>
        LET sql == query.sql.v
            tinfo == query.tables_info[1]
            plan == select_plan(tinfo, sql)
            scanned(scan) ==
                /\ scan.kind = "ok"
                /\ Len(scan.val) = Len(sql.col_names)
                /\ \A c \in 1..Len(scan.val) : Len(scan.val[c]) = Len(ExpectedRows(sql))
                /\ RowsOf(scan.val) = ExpectedRows(sql)
        IN  /\ scanned(get_cols_data_with_filter(pages, tinfo.rootpage, plan,
                                                 EmptyColumns(plan)))
            /\ pc \in {"print", "done"}
            /\ out \o [i \in 1..Len(rows) |-> Join(rows[i])]
                  = [i \in 1..Len(ExpectedRows(sql)) |-> Join(ExpectedRows(sql)[i])]

\* a filtered full scan of two columns kept a row whose text differs from the
\* literal in case, dropped another row, and has printed what it kept
C15_Witness ==
    /\ FullScanSelect
    /\ query.sql.v.where.some
    /\ Len(query.sql.v.col_names) = 2
    /\ pc = "done"
    /\ out # <<>>
    /\ Len(out) < Len(given.recs)
    /\ \E i \in 1..Len(given.recs) :
          /\ given.recs[i].cols[2].body # query.sql.v.where.v.val
          /\ MatchesLiteral(given.recs[i].cols[2].body, query.sql.v.where.v.val)

\* a full scan with no filter has printed every row
C15_WitnessNoFilter ==
    /\ FullScanSelect
    /\ ~query.sql.v.where.some
    /\ pc = "done"
    /\ Len(out) = MaxQueryRows

(***************************************************************************)
(* The cell readers at the end of the file.  data is the file from the     *)
(* first byte of a well-formed cell: the cell, then given.after bytes that *)
(* are not the cell's.  after = 0 is a cell that ends at the last byte of  *)
(* the last page.                                                          *)
(***************************************************************************)
MaxAfter == 9

CellRecords == {<<Null>>, <<Text(<<97>>)>>, <<Null, Text(<<97, 98>>)>>,
                <<IntCol(7), Text(<<97>>)>>}

\* rowids and keys of a one-byte and of a two-byte varint
CellRowids == {1, 200}

CellsOfFile ==
    {[kind |-> "table_leaf", rowid |-> r, cols |-> cols] :
        r \in CellRowids, cols \in CellRecords}
    \cup {[kind |-> "index_leaf", cols |-> cols] : cols \in CellRecords}
    \cup {[kind |-> "table_interior", left |-> l, key |-> k] :
            l \in {2, 3}, k \in CellRowids}

CellBytes(cell) ==
    IF cell.kind = "table_leaf"
    THEN TableLeafCellBytes(cell.rowid, MakeRecord(cell.cols))
    ELSE IF cell.kind = "index_leaf" THEN IndexLeafCellBytes(MakeRecord(cell.cols))
    ELSE TableInteriorCellBytes(cell.left, cell.key)

InitCell ==
    /\ given \in {[cell |-> cell, after |-> n] : cell \in CellsOfFile, n \in 0..MaxAfter}
    /\ data = CellBytes(given.cell) \o Zeros(given.after)
    /\ ret = None
    /\ Idle

\* a leaf cell is read
ReadLeafCell ==
    /\ ret = None
    /\ "cell" \in DOMAIN given
    /\ given.cell.kind \in {"table_leaf", "index_leaf"}
    /\ ret' = [fn |-> "get_cell_data",
               res |-> get_cell_data(data, given.cell.kind = "index_leaf")]
    /\ UNCHANGED <<data, given, pages, query, pc, rows, out>>

\* a table-interior cell is read
ReadInteriorCell ==
    /\ ret = None
    /\ "cell" \in DOMAIN given
    /\ given.cell.kind = "table_interior"
    /\ ret' = [fn |-> "extract_interior_cell_data",
               res |-> extract_interior_cell_data(data, FALSE)]
    /\ UNCHANGED <<data, given, pages, query, pc, rows, out>>

NextCell == ReadLeafCell \/ ReadInteriorCell

SpecCell == InitCell /\ [][NextCell]_vars

\* what the reader must return for a cell
CellRead(cell) ==
    IF cell.kind = "table_interior"
    THEN Ok([left |-> cell.left, key |-> U64(cell.key)])
    ELSE Ok([data |-> [i \in 1..Len(cell.cols) |-> cell.cols[i].body],
             rowid |-> IF cell.kind = "table_leaf" THEN U64(cell.rowid) ELSE Zero64])

\* C16: reading a well-formed table-leaf, index-leaf or table-interior cell
\* that lies inside the file returns its rowid or key and its payload with no
\* I/O error, however few bytes follow the cell, none included.
C16_CellInsideFile ==
    ret # None => ret.res = CellRead(given.cell)

\* the bytes the reader asks of the file, counted from the start of the cell
BytesRead(cell) ==
    IF cell.kind = "table_interior" THEN 13
    ELSE IF cell.kind = "index_leaf" THEN Max({9, Len(CellBytes(cell))})
    ELSE Max({10, Len(CellBytes(cell))})

\* the readers succeed exactly when the file has the bytes of their
\* fixed-size reads, and then return the cell
C16_FixedSizeReads ==
    ret # None =>
        IF Len(data) >= BytesRead(given.cell) THEN ret.res = CellRead(given.cell)
        ELSE ret.res.kind = "err"

====
